---- MODULE Spec2Model ----
(***************************************************************************)
(* Model of the talker node (src/src/talker.cpp): start-up frequency      *)
(* resolution, the modifyTalkerMessage service handler `say`, and the     *)
(* publish loop of `main`.                                                 *)
(*                                                                         *)
(* Strings are sequences of one-character strings, so that atoi, the      *)
(* stream insertion of an int and the concatenation done by the loop are  *)
(* computed character by character.                                        *)
(***************************************************************************)
EXTENDS Integers, Sequences, FiniteSets, TLC

VARIABLES
    argv,             \* command-line arguments after argv[0]
    talkerFrequency,  \* int talkerFrequency (line 85)
    loop_rate,        \* frequency given to ros::Rate (line 138); 0 before construction
    message,          \* global std::string message (line 40)
    count,            \* int count (line 144)
    msg,              \* msg.data of the current iteration (line 149)
    transform,        \* tf::Transform transform (line 81)
    pc,               \* position of main
    ok,               \* value ros::ok() returns
    queue,            \* service requests waiting in the node's callback queue
    now,              \* ros::Time::now(), in microseconds since start
    trace             \* everything the node has emitted, in order

vars == <<argv, talkerFrequency, loop_rate, message, count, msg, transform,
          pc, ok, queue, now, trace>>

----------------------------------------------------------------------------
(* Bounds of the model *)

\* longest command-line argument explored by the start-up specification
MaxArgLen == 2

\* number of loop iterations explored
MaxTicks == 3

\* number of service calls issued by clients
MaxCalls == 2

----------------------------------------------------------------------------
(* Strings *)

EmptyStr == << >>

Hello == <<"h", "e", "l", "l", "o">>

\* std::string message = "Written By Aman Virmani"
DefaultMessage ==
    <<"W", "r", "i", "t", "t", "e", "n", " ", "B", "y", " ",
      "A", "m", "a", "n", " ", "V", "i", "r", "m", "a", "n", "i">>

DigitChars == <<"0", "1", "2", "3", "4", "5", "6", "7", "8", "9">>

IsDigit(c) == \E d \in 1..10 : DigitChars[d] = c

DigitVal(c) == (CHOOSE d \in 1..10 : DigitChars[d] = c) - 1

\* isspace, over the characters the model uses
IsSpace(c) == c = " "

\* INT_MAX of the 32-bit int that holds count
IntMax == 2147483647

IntMin == (-IntMax) - 1

\* an increment that skips a value
NextIntSkip(n) == n + 2

\* ++n on an int: past INT_MAX the builds of the node wrap to INT_MIN
NextInt(n) == IF n = IntMax THEN IntMin ELSE n + 1

\* the decimal digits of a natural number, most significant first
RECURSIVE NatToStr(_)
NatToStr(n) ==
    IF n < 10 THEN <<DigitChars[n + 1]>>
    ELSE NatToStr(n \div 10) \o <<DigitChars[(n % 10) + 1]>>

\* ss << count : stream insertion of an int
IntToStr(n) == IF n < 0 THEN <<"-">> \o NatToStr(-n) ELSE NatToStr(n)

\* the digits of s from position i on, accumulated onto acc, up to the first
\* character that is not a digit
RECURSIVE AccDigits(_, _, _)
AccDigits(s, i, acc) ==
    IF i > Len(s) \/ ~IsDigit(s[i]) THEN acc
    ELSE AccDigits(s, i + 1, acc * 10 + DigitVal(s[i]))

\* index of the first character of s at or after i that is not white space
RECURSIVE SkipSpace(_, _)
SkipSpace(s, i) ==
    IF i <= Len(s) /\ IsSpace(s[i]) THEN SkipSpace(s, i + 1) ELSE i

\* atoi: leading white space, an optional sign, then digits; 0 when no digits
atoi(s) ==
    LET i == SkipSpace(s, 1)
        neg == i <= Len(s) /\ s[i] = "-"
        j == IF i <= Len(s) /\ s[i] \in {"-", "+"} THEN i + 1 ELSE i
        v == AccDigits(s, j, 0)
    IN  IF neg THEN -v ELSE v

----------------------------------------------------------------------------
(* What the node emits *)

NoTransform ==
    [origin |-> <<0, 0, 0>>, rotation |-> [roll |-> 0, pitch |-> 0, yaw |-> 0],
     stamp |-> 0, frame_id |-> "", child_frame_id |-> ""]

Event(kind, level, text, data) ==
    [kind |-> kind, level |-> level, text |-> text, data |-> data,
     req |-> EmptyStr, ret |-> FALSE, issued |-> 0, tf |-> NoTransform]

\* a ROS_<LEVEL>/ROS_<LEVEL>_STREAM notice: the literal text and the value
\* streamed or formatted after it
LogEvent(level, text, data) == Event("log", level, text, data)

\* chatter_pub.publish(msg)
ChatterEvent(data) == Event("chatter", "", "", data)

\* br.sendTransform(stamped)
TfEvent(stamped) == [Event("tf", "", "", EmptyStr) EXCEPT !.tf = stamped]

\* the service response returned to the caller of request r
ResponseEvent(r, res, ret) ==
    [Event("response", "", "", res) EXCEPT
        !.req = r.inputStr, !.ret = ret, !.issued = r.tick]

----------------------------------------------------------------------------
(* Inputs *)

ArgChars == {" ", "-", "+", "0", "5", "a"}

\* every argument string of at most n characters
ArgStrings(n) == UNION {[1..k -> ArgChars] : k \in 0..n}

\* command lines of the start-up specification: no argument, or one argument
StartupCommandLines == {<< >>} \cup {<<a>> : a \in ArgStrings(MaxArgLen)}

\* command lines the node is launched with in the full specification
LaunchCommandLines ==
    {<< >>, <<<<"5">>>>, <<<<"-", "5">>>>, <<<<"0">>>>, <<<<"a">>>>}

\* request strings sent to modifyTalkerMessage
Inputs == {EmptyStr, Hello, <<"5", " ", "a">>}

----------------------------------------------------------------------------
(* Start-up: main, lines 77-144 *)

\* argc of main
argc == Len(argv) + 1

InitWith(cmdlines) ==
    /\ argv \in cmdlines
    /\ talkerFrequency = 10
    /\ loop_rate = 0
    /\ message = DefaultMessage
    /\ count = 0
    /\ msg = EmptyStr
    /\ transform = [origin |-> <<0, 0, 0>>,
                    rotation |-> [roll |-> 0, pitch |-> 0, yaw |-> 0]]
    /\ pc = "parse"
    /\ ok = TRUE
    /\ queue = << >>
    /\ now = 0
    /\ trace = << >>

Init == InitWith(LaunchCommandLines)

InitStartup == InitWith(StartupCommandLines)

\* a start-up that reads a missing argument as 0
ParseArgsAbsentZero ==
    /\ pc = "parse"
    /\ talkerFrequency' = IF argc > 1 THEN atoi(argv[1]) ELSE 0
    /\ pc' = "resolve"
    /\ UNCHANGED <<argv, loop_rate, message, count, msg, transform, ok, queue,
                   now, trace>>

\* if (argc > 1) talkerFrequency = atoi(argv[1]);
ParseArgs ==
    /\ pc = "parse"
    /\ talkerFrequency' = IF argc > 1 THEN atoi(argv[1]) ELSE talkerFrequency
    /\ pc' = "resolve"
    /\ UNCHANGED <<argv, loop_rate, message, count, msg, transform, ok, queue,
                   now, trace>>

\* a chain that reports a negative frequency at error level
FrequencyNoticesError(f) ==
    IF f > 0 THEN
        <<LogEvent("DEBUG", "Talker publishing at frequency: ", IntToStr(f))>>
    ELSE
        <<LogEvent("ERROR", "Talker expects non-zero frequency", EmptyStr),
          LogEvent("WARN", "Talker frequency set to default value of 10Hz", EmptyStr)>>

\* the notices of the if / else if chain of lines 92-108 for frequency f
FrequencyNotices(f) ==
    IF f > 0 THEN
        <<LogEvent("DEBUG", "Talker publishing at frequency: ", IntToStr(f))>>
    ELSE IF f < 0 THEN
        <<LogEvent("FATAL", "Talker expects positive value of frequency", EmptyStr),
          LogEvent("WARN", "Talker frequency set to default value of 10Hz", EmptyStr)>>
    ELSE IF f = 0 THEN
        <<LogEvent("ERROR", "Talker expects non-zero frequency", EmptyStr),
          LogEvent("WARN", "Talker frequency set to default value of 10Hz", EmptyStr)>>
    ELSE << >>

\* a resolution that keeps the magnitude of a negative request
ResolvedFrequencyAbs(f) ==
    IF f > 0 THEN f
    ELSE IF f < 0 THEN -f
    ELSE 10

\* a resolution that replaces negative requests only
ResolvedFrequencyZeroKept(f) == IF f < 0 THEN 10 ELSE f

\* the value of talkerFrequency after the chain of lines 92-108
ResolvedFrequency(f) ==
    IF f > 0 THEN f
    ELSE IF f < 0 THEN 10
    ELSE IF f = 0 THEN 10
    ELSE f

ResolveFrequency ==
    /\ pc = "resolve"
    /\ trace' = trace \o FrequencyNotices(talkerFrequency)
    /\ talkerFrequency' = ResolvedFrequency(talkerFrequency)
    /\ pc' = "setup"
    /\ UNCHANGED <<argv, loop_rate, message, count, msg, transform, ok, queue,
                   now>>

\* the frequency the loop's ros::Rate is constructed with
RateArgument == talkerFrequency

\* NodeHandle, advertise, advertiseService, ros::Rate loop_rate, int count = 0
Setup ==
    /\ pc = "setup"
    /\ loop_rate' = RateArgument
    /\ count' = 0
    /\ pc' = "loop"
    /\ UNCHANGED <<argv, talkerFrequency, message, msg, transform, ok, queue,
                   now, trace>>

----------------------------------------------------------------------------
(* The service handler: say, lines 48-54 *)

\* a handler that answers with the message it replaces
SayResponseOld(req, m) == m

\* res.modifiedStr = req.inputStr
SayResponse(req, m) == req.inputStr

\* a handler that answers but leaves the message as it was
SayMessageKept(res, m) == m

\* a handler that appends to the message instead of replacing it
SayMessageAppended(res, m) == m \o res

\* a handler whose write is cut short: the first half of the new string
\* followed by what is left of the old one
SayMessageTorn(res, m) ==
    SubSeq(res, 1, Len(res) \div 2) \o SubSeq(m, (Len(res) \div 2) + 1, Len(m))

\* message = res.modifiedStr
SayMessage(res, m) == res

\* one call of say(req, res) with the global message holding m:
\* the response, the new message, the notice, and the value returned
Say(req, m) ==
    LET res == SayResponse(req, m) IN
    [modifiedStr |-> res,
     message |-> SayMessage(res, m),
     log |-> LogEvent("INFO", "Default message by talker changed to: ", EmptyStr),
     ret |-> TRUE]

\* a spinOnce that runs one waiting callback only (callOne)
BatchOne(q) == IF q = << >> THEN 0 ELSE 1

\* number of waiting callbacks one spinOnce (callAvailable) runs: all of them
Batch(q) == Len(q)

\* the callbacks of q run one after the other on the calling thread;
\* st = [message, trace] is threaded through them
RECURSIVE CallAvailable(_, _)
CallAvailable(q, st) ==
    IF q = << >> THEN st
    ELSE LET r == Say(Head(q), st.message) IN
         CallAvailable(Tail(q),
             [message |-> r.message,
              trace |-> st.trace \o
                  <<r.log, ResponseEvent(Head(q), r.modifiedStr, r.ret)>>])

----------------------------------------------------------------------------
(* The publish loop: main, lines 145-180 *)

RunningPcs ==
    {"loop", "compose", "publish", "transform", "spin", "sleep", "incr"}

\* number of messages handed to chatter_pub.publish so far
NumPublished == Cardinality({i \in 1..Len(trace) : trace[i].kind = "chatter"})

\* a loop head that does not look at ros::ok()
LoopCheckForever ==
    /\ pc = "loop"
    /\ count < MaxTicks
    /\ pc' = "compose"
    /\ UNCHANGED <<argv, talkerFrequency, loop_rate, message, count, msg,
                   transform, ok, queue, now, trace>>

\* a loop head that looks at ros::ok() on every other iteration only
LoopCheckEveryOther ==
    /\ pc = "loop"
    /\ ok => count < MaxTicks
    /\ pc' = IF ok \/ (count % 2 = 1 /\ count < MaxTicks) THEN "compose"
             ELSE "done"
    /\ UNCHANGED <<argv, talkerFrequency, loop_rate, message, count, msg,
                   transform, ok, queue, now, trace>>

\* while (ros::ok())
LoopCheck ==
    /\ pc = "loop"
    /\ ok => NumPublished < MaxTicks
    /\ pc' = IF ok THEN "compose" ELSE "done"
    /\ UNCHANGED <<argv, talkerFrequency, loop_rate, message, count, msg,
                   transform, ok, queue, now, trace>>

\* a composition that leaves out the separating space
ComposedTextNoSpace(n, m) == IntToStr(n) \o m

\* ss << count << " " << message; msg.data = ss.str();
ComposedText(n, m) == IntToStr(n) \o <<" ">> \o m

\* a compose step that puts the default message back after reading
ComposeResetting ==
    /\ pc = "compose"
    /\ msg' = IntToStr(count) \o <<" ">> \o message
    /\ message' = DefaultMessage
    /\ trace' = Append(trace, LogEvent("INFO", "%s", msg'))
    /\ pc' = "publish"
    /\ UNCHANGED <<argv, talkerFrequency, loop_rate, count, transform, ok,
                   queue, now>>

\* lines 149-155
Compose ==
    /\ pc = "compose"
    /\ msg' = ComposedText(count, message)
    /\ trace' = Append(trace, LogEvent("INFO", "%s", msg'))
    /\ pc' = "publish"
    /\ UNCHANGED <<argv, talkerFrequency, loop_rate, message, count, transform,
                   ok, queue, now>>

\* a publish step that sends the message twice
PublishTwice ==
    /\ pc = "publish"
    /\ trace' = trace \o <<ChatterEvent(msg), ChatterEvent(msg)>>
    /\ pc' = "transform"
    /\ UNCHANGED <<argv, talkerFrequency, loop_rate, message, count, msg,
                   transform, ok, queue, now>>

\* chatter_pub.publish(msg), line 163
Publish ==
    /\ pc = "publish"
    /\ trace' = Append(trace, ChatterEvent(msg))
    /\ pc' = "transform"
    /\ UNCHANGED <<argv, talkerFrequency, loop_rate, message, count, msg,
                   transform, ok, queue, now>>

\* q.setRPY(roll, pitch, yaw): the rotation with these Euler angles, in radians
setRPY(roll, pitch, yaw) == [roll |-> roll, pitch |-> pitch, yaw |-> yaw]

\* transform after setOrigin(tf::Vector3(0.0, 2.0, 0.0)) and setRotation(q)
LoopTransform == [origin |-> <<0, 2, 0>>, rotation |-> setRPY(0, 0, 1)]

\* a stamped transform with parent and child frame exchanged
StampedTransformSwapped(t, stamp, frame_id, child_frame_id) ==
    [origin |-> t.origin, rotation |-> t.rotation, stamp |-> stamp,
     frame_id |-> child_frame_id, child_frame_id |-> frame_id]

\* tf::StampedTransform(t, stamp, frame_id, child_frame_id)
StampedTransform(t, stamp, frame_id, child_frame_id) ==
    [origin |-> t.origin, rotation |-> t.rotation, stamp |-> stamp,
     frame_id |-> frame_id, child_frame_id |-> child_frame_id]

\* lines 165-174
SendTransform ==
    /\ pc = "transform"
    /\ transform' = LoopTransform
    /\ trace' = Append(trace,
           TfEvent(StampedTransform(transform', now, "world", "talk")))
    /\ pc' = "spin"
    /\ UNCHANGED <<argv, talkerFrequency, loop_rate, message, count, msg, ok,
                   queue, now>>

\* a dispatch step after which the loop does not sleep
SpinOnceNoSleep ==
    /\ pc = "spin"
    /\ LET n == Batch(queue)
           st == CallAvailable(SubSeq(queue, 1, n),
                               [message |-> message, trace |-> trace])
       IN  /\ message' = st.message
           /\ trace' = st.trace
           /\ queue' = SubSeq(queue, n + 1, Len(queue))
    /\ pc' = "incr"
    /\ UNCHANGED <<argv, talkerFrequency, loop_rate, count, msg, transform, ok,
                   now>>

\* ros::spinOnce(), line 176: every request waiting in the callback queue is
\* handed to say
SpinOnce ==
    /\ pc = "spin"
    /\ LET n == Batch(queue)
           st == CallAvailable(SubSeq(queue, 1, n),
                               [message |-> message, trace |-> trace])
       IN  /\ message' = st.message
           /\ trace' = st.trace
           /\ queue' = SubSeq(queue, n + 1, Len(queue))
    /\ pc' = "sleep"
    /\ UNCHANGED <<argv, talkerFrequency, loop_rate, count, msg, transform, ok,
                   now>>

\* expected cycle time of ros::Rate(f), in microseconds
CycleTime(f) == IF f > 0 THEN 1000000 \div f ELSE 0

\* loop_rate.sleep(), line 178
Sleep ==
    /\ pc = "sleep"
    /\ now' = now + CycleTime(loop_rate)
    /\ pc' = "incr"
    /\ UNCHANGED <<argv, talkerFrequency, loop_rate, message, count, msg,
                   transform, ok, queue, trace>>

\* what ++n leaves behind: the next value and the loop going on; at INT_MAX
\* the increment overflows, which the language leaves undefined: the usual
\* builds wrap, a build that traps on overflow ends the process
IncrementOutcomes(n) ==
    {[count |-> NextInt(n), pc |-> "loop"]} \cup
        (IF n = IntMax THEN {[count |-> n, pc |-> "done"]} ELSE {})

\* ++count, line 179
Increment ==
    /\ pc = "incr"
    /\ \E o \in IncrementOutcomes(count) : count' = o.count /\ pc' = o.pc
    /\ UNCHANGED <<argv, talkerFrequency, loop_rate, message, msg, transform,
                   ok, queue, now, trace>>

----------------------------------------------------------------------------
(* The environment *)

\* number of responses returned so far
NumResponses == Cardinality({i \in 1..Len(trace) : trace[i].kind = "response"})

\* a service whose handler runs the moment the request arrives, on a thread
\* of its own
CallServiceImmediate ==
    /\ pc \in RunningPcs
    /\ ok
    /\ NumResponses + Len(queue) < MaxCalls
    /\ \E s \in Inputs :
           LET st == CallAvailable(<<[inputStr |-> s, tick |-> count]>>,
                                   [message |-> message, trace |-> trace])
           IN  message' = st.message /\ trace' = st.trace
    /\ UNCHANGED <<argv, talkerFrequency, loop_rate, count, msg, transform, pc,
                   ok, queue, now>>

\* a client calls modifyTalkerMessage: the request waits in the callback queue
\* of the node; tick is the loop iteration during which it was issued
CallService ==
    /\ pc \in RunningPcs
    /\ ok
    /\ NumResponses + Len(queue) < MaxCalls
    /\ \E s \in Inputs :
           queue' = Append(queue, [inputStr |-> s, tick |-> count])
    /\ UNCHANGED <<argv, talkerFrequency, loop_rate, message, count, msg,
                   transform, pc, ok, now, trace>>

\* the node is asked to shut down: ros::ok() turns false and the callback
\* queue is disabled and cleared
Shutdown ==
    /\ pc \in RunningPcs
    /\ ok
    /\ ok' = FALSE
    /\ queue' = << >>
    /\ UNCHANGED <<argv, talkerFrequency, loop_rate, message, count, msg,
                   transform, pc, now, trace>>

----------------------------------------------------------------------------
(* Specifications *)

Next ==
    \/ ParseArgs
    \/ ResolveFrequency
    \/ Setup
    \/ LoopCheck
    \/ Compose
    \/ Publish
    \/ SendTransform
    \/ SpinOnce
    \/ Sleep
    \/ Increment
    \/ CallService
    \/ Shutdown

Spec == Init /\ [][Next]_vars

\* the steps of main
MainStep ==
    \/ ParseArgs
    \/ ResolveFrequency
    \/ Setup
    \/ LoopCheck
    \/ Compose
    \/ Publish
    \/ SendTransform
    \/ SpinOnce
    \/ Sleep
    \/ Increment

\* main keeps running: every call it makes returns (say has no loop, the
\* sleep lasts one period at most), so a step of main that can be taken is
\* eventually taken
SpecFair == Spec /\ WF_vars(MainStep)

\* value of count MaxTicks - 1 iterations before it reaches INT_MAX
LongRunStart == IntMax - (MaxTicks - 1)

\* the node after LongRunStart iterations, at its loop head, started without
\* an argument and with no call made so far; trace and now are kept from
\* this moment on
InitLongRun ==
    /\ argv = << >>
    /\ talkerFrequency = 10
    /\ loop_rate = 10
    /\ message = DefaultMessage
    /\ count = LongRunStart
    /\ msg = EmptyStr
    /\ transform = LoopTransform
    /\ pc = "loop"
    /\ ok = TRUE
    /\ queue = << >>
    /\ now = 0
    /\ trace = << >>

NextLongRun ==
    \/ LoopCheck
    \/ Compose
    \/ Publish
    \/ SendTransform
    \/ SpinOnce
    \/ Sleep
    \/ Increment
    \/ CallService
    \/ Shutdown

\* the last iterations before count reaches INT_MAX, and the one that
\* increments it there
SpecLongRun == InitLongRun /\ [][NextLongRun]_vars

\* start-up alone, over every command line of at most MaxArgLen characters
NextStartup ==
    \/ ParseArgs
    \/ ResolveFrequency
    \/ Setup

SpecStartup == InitStartup /\ [][NextStartup]_vars

----------------------------------------------------------------------------
(* Reading the trace *)

Positions(kind) == {i \in 1..Len(trace) : trace[i].kind = kind}

\* number of events of this kind emitted before position i
NumBefore(kind, i) == Cardinality({j \in Positions(kind) : j < i})

NumChatter == Cardinality(Positions("chatter"))

\* the levels of the notices in the trace, as a set
NoticeLevels == {trace[i].level : i \in Positions("log")}

\* the text of a chatter message after its sequence number and the space
Payload(d) ==
    LET k == CHOOSE k \in 1..Len(d) :
                 d[k] = " " /\ \A j \in 1..(k - 1) : d[j] # " "
    IN  SubSeq(d, k + 1, Len(d))

\* position of the last response returned before position i; 0 when none
LastResponseBefore(i) ==
    LET R == {j \in Positions("response") : j < i}
    IN  IF R = {} THEN 0 ELSE CHOOSE j \in R : \A k \in R : k <= j

----------------------------------------------------------------------------
(* Claims *)

\* C1: the frequency resolution step leaves a positive talkerFrequency f as
\* it is and replaces a negative or a zero one by 10, and the value it leaves
\* is the one the loop's ros::Rate is constructed with.
C1_FrequencyResolution ==
    [][ /\ pc = "resolve" =>
            /\ talkerFrequency > 0 => talkerFrequency' = talkerFrequency
            /\ talkerFrequency < 0 => talkerFrequency' = 10
            /\ talkerFrequency = 0 => talkerFrequency' = 10
        /\ pc = "setup" => loop_rate' = talkerFrequency ]_vars

\* a positive request other than the default has reached the loop's rate
C1_Witness == pc = "loop" /\ argv = <<<<"5", "5">>>> /\ loop_rate = 55

\* C2: every call of the handler returns true and answers with exactly the
\* string it was sent, the empty string included.
C2_HandlerEcho ==
    \A i \in Positions("response") :
        trace[i].ret = TRUE /\ trace[i].data = trace[i].req

\* an empty request and a non-empty one have both been answered
C2_Witness ==
    /\ \E i \in Positions("response") :
           trace[i].req = EmptyStr /\ trace[i].data = EmptyStr
    /\ \E i \in Positions("response") : trace[i].req = Hello

\* C3: count is 0 until the first iteration completes, at every loop head it
\* is the number of iterations completed (each has published one message),
\* inside an iteration it is that iteration's index, and the k-th message
\* published starts with the decimal number k (k = 0, 1, 2, ...).
C3_SequenceNumbering ==
    /\ pc \in {"parse", "resolve", "setup"} => count = 0 /\ NumChatter = 0
    /\ pc \in {"loop", "compose", "publish", "done"} => count = NumChatter
    /\ pc \in {"transform", "spin", "sleep", "incr"} => count + 1 = NumChatter
    /\ \A i \in Positions("chatter") :
           atoi(trace[i].data) = NumBefore("chatter", i)

\* three iterations are complete and calls were answered in between
C3_Witness == pc = "loop" /\ count = 3 /\ NumResponses = 2

\* C4: when a handler call has completed before an iteration publishes, the
\* text published by that iteration is the string answered by the last call
\* completed before it.
C4_WriteBeforeTick ==
    \A i \in Positions("chatter") :
        LastResponseBefore(i) # 0 =>
            Payload(trace[i].data) = trace[LastResponseBefore(i)].data

\* a message was published from a value written after an earlier write
C4_Witness ==
    \E i \in Positions("chatter") :
        /\ NumBefore("response", i) = 2
        /\ Payload(trace[i].data) = Hello
        /\ \E j \in Positions("response") :
               j < LastResponseBefore(i) /\ trace[j].data # Hello

\* the requests answered from position i up to, not including, position j
AnsweredBetween(i, j) ==
    {trace[k].req : k \in {k \in Positions("response") : i <= k /\ k < j}}

\* a request issued during iteration T is reflected, unless overwritten by a
\* later one, in the message published by iteration T + d
ReflectedWithin(d) ==
    /\ \A r \in 1..Len(queue) : NumChatter <= queue[r].tick + d
    /\ \A i \in Positions("response") : \A j \in Positions("chatter") :
           NumBefore("chatter", j) = trace[i].issued + d =>
               Payload(trace[j].data) \in AnsweredBetween(i, j)

\* C5 as stated: a request issued at any point of iteration T, its sleep
\* included, is reflected by the message of iteration T+1.
C5_NextTick == ReflectedWithin(1)

\* C5 amended: a request issued at any point of iteration T, its sleep
\* included, is reflected by the message of iteration T+2.
C5_SecondNextTick == ReflectedWithin(2)

\* a request issued in iteration 0 was answered in iteration 1 and iteration 2
\* has published it
C5_Witness ==
    \E i \in Positions("response") : \E j \in Positions("chatter") :
        /\ trace[i].issued = 0
        /\ NumBefore("chatter", i) = 2
        /\ NumBefore("chatter", j) = 2
        /\ Payload(trace[j].data) = trace[i].req

\* C6: once calls have been answered, message holds the request handed last
\* to the handler, whole, and nothing else.
C6_LastWriteWins ==
    Positions("response") # {} =>
        /\ message = trace[LastResponseBefore(Len(trace) + 1)].req
        /\ message \in Inputs

\* two requests with different strings, issued in the same iteration, were
\* answered by the same spinOnce and none is waiting
C6_Witness ==
    /\ queue = << >>
    /\ \E i \in Positions("response") :
           /\ i + 2 = LastResponseBefore(Len(trace) + 1)
           /\ trace[i].issued = trace[i + 2].issued
           /\ trace[i].req # trace[i + 2].req
           /\ message = trace[i + 2].req

\* the string a chatter message at position i is built from
Snapshot(i) ==
    IF LastResponseBefore(i) = 0 THEN DefaultMessage
    ELSE trace[LastResponseBefore(i)].data

\* C7: the k-th message published is the decimal number k, one space and the
\* message text of that moment; the first one is "0 Written By Aman Virmani",
\* and when the last call answered before the second one was answered
\* "hello", the second one is "1 hello".
C7_EndToEnd ==
    /\ \A i \in Positions("chatter") :
           trace[i].data =
               IntToStr(NumBefore("chatter", i)) \o <<" ">> \o Snapshot(i)
    /\ \A i \in Positions("chatter") :
           NumBefore("chatter", i) = 0 =>
               trace[i].data =
                   <<"0", " ", "W", "r", "i", "t", "t", "e", "n", " ", "B",
                     "y", " ", "A", "m", "a", "n", " ", "V", "i", "r", "m",
                     "a", "n", "i">>
    /\ \A i \in Positions("chatter") :
           /\ NumBefore("chatter", i) = 1
           /\ LastResponseBefore(i) # 0
           /\ trace[LastResponseBefore(i)].req = Hello
           /\ trace[LastResponseBefore(i)].data = Hello
           => trace[i].data = <<"1", " ", "h", "e", "l", "l", "o">>

\* "hello" was sent and answered during the first iteration and the second
\* iteration has published
C7_Witness ==
    \E i \in Positions("chatter") :
        /\ NumBefore("chatter", i) = 1
        /\ NumBefore("response", i) = 1
        /\ trace[LastResponseBefore(i)].req = Hello
        /\ trace[i].data = <<"1", " ", "h", "e", "l", "l", "o">>

\* C8: every transform sent has translation (0, 2, 0), the rotation of roll 0,
\* pitch 0, yaw 1 radian, parent frame "world" and child frame "talk".
C8_FixedTransform ==
    \A i \in Positions("tf") :
        /\ trace[i].tf.origin = <<0, 2, 0>>
        /\ trace[i].tf.rotation = [roll |-> 0, pitch |-> 0, yaw |-> 1]
        /\ trace[i].tf.frame_id = "world"
        /\ trace[i].tf.child_frame_id = "talk"

\* transforms were sent before and after the message changed, with different
\* time stamps
C8_Witness ==
    \E i \in Positions("tf") : \E j \in Positions("tf") :
        /\ i < LastResponseBefore(j)
        /\ LastResponseBefore(j) < j
        /\ trace[i].tf.stamp # trace[j].tf.stamp
        /\ message # DefaultMessage

\* the levels of the notices in the sequence of events es, in order
LevelsOf(es) == [k \in 1..Len(es) |-> es[k].level]

\* what the resolution step does for the frequency it finds
C9_ResolveStep ==
    pc = "resolve" =>
        LET added == SubSeq(trace', Len(trace) + 1, Len(trace')) IN
        /\ NumChatter = 0
        /\ talkerFrequency < 0 =>
               /\ talkerFrequency' = 10
               /\ LevelsOf(added) = <<"FATAL", "WARN">>
               /\ added[2].text = "Talker frequency set to default value of 10Hz"
        /\ talkerFrequency = 0 =>
               /\ talkerFrequency' = 10
               /\ LevelsOf(added) = <<"ERROR", "WARN">>
               /\ added[2].text = "Talker frequency set to default value of 10Hz"
        /\ talkerFrequency > 0 =>
               \A k \in 1..Len(added) :
                   added[k].level \notin {"FATAL", "ERROR", "WARN"}

\* critical, error and warning notices precede every published message and
\* never accompany the notice of a positive frequency
C9_NoticesBeforeTicks ==
    \A i \in Positions("log") :
        trace[i].level \in {"FATAL", "ERROR", "WARN"} =>
            NumBefore("chatter", i) = 0 /\ "DEBUG" \notin NoticeLevels

\* C9: a negative frequency is replaced by 10 with a critical and a warning
\* notice, a zero one by 10 with an error and the same warning notice, a
\* positive one gets none of the three; the notices come before the first
\* published message and none of the three levels is emitted later.
C9_FallbackNotices == [][C9_ResolveStep]_vars /\ []C9_NoticesBeforeTicks

\* the node was started with -5, has logged the two notices and is in its
\* first iteration with rate 10
C9_Witness ==
    /\ argv = <<<<"-", "5">>>>
    /\ pc = "publish"
    /\ count = 0
    /\ loop_rate = 10
    /\ LevelsOf(SubSeq(trace, 1, 2)) = <<"FATAL", "WARN">>

\* the zero-frequency fallback has been taken
ZeroFallback ==
    talkerFrequency = 10 /\ LevelsOf(trace) = <<"ERROR", "WARN">>

\* s is an optionally signed decimal number
IsDecimalNumber(s) ==
    LET d == IF s # << >> /\ s[1] \in {"-", "+"} THEN Tail(s) ELSE s
    IN  d # << >> /\ \A k \in 1..Len(d) : IsDigit(d[k])

\* after white space and at most one sign, s does not continue with a digit
NoLeadingNumber(s) ==
    \E k \in 0..Len(s) :
        /\ \A j \in 1..k : s[j] = " "
        /\ LET r == SubSeq(s, k + 1, Len(s)) IN
           \/ r = << >>
           \/ /\ r[1] # " "
              /\ ~IsDigit(r[1])
              /\ r[1] \in {"-", "+"} => (Len(r) = 1 \/ ~IsDigit(r[2]))

\* C10 as stated: with the argument absent, or present but not a number, the
\* zero-frequency fallback is taken.
C10_AbsentOrNonNumericIsZero ==
    pc \in {"setup", "loop"} /\ (argc <= 1 \/ ~IsDecimalNumber(argv[1]))
        => ZeroFallback

\* C10 amended: with the argument absent the frequency is the built-in 10,
\* reported as a positive one and with no fallback; with an argument that,
\* after white space and an optional sign, does not start with a digit, the
\* zero-frequency fallback is taken.
C10_AbsentIsDefault ==
    pc \in {"setup", "loop"} =>
        /\ argc <= 1 =>
               /\ talkerFrequency = 10
               /\ LevelsOf(trace) = <<"DEBUG">>
               /\ trace[1].data = <<"1", "0">>
        /\ (argc > 1 /\ NoLeadingNumber(argv[1])) => ZeroFallback

\* started without an argument, the node has resolved its frequency
C10_Witness ==
    /\ argv = << >>
    /\ pc = "setup"
    /\ talkerFrequency = 10
    /\ LevelsOf(trace) = <<"DEBUG">>


\* the loop's rate has been constructed
RateConstructed == pc \in RunningPcs \cup {"done"}

\* C11: from the construction of the loop's rate on, the frequency it was
\* given is greater than 0 and no step changes it, whatever the command line.
C11_PositiveRate ==
    /\ [](RateConstructed => loop_rate > 0)
    /\ [][RateConstructed => loop_rate' = loop_rate]_vars

\* started with "0", the node has completed an iteration at the fallback rate
C11_Witness ==
    /\ argv = <<<<"0">>>>
    /\ pc = "sleep"
    /\ count = 1
    /\ loop_rate = 10


\* C12: a loop head that finds ros::ok() false leaves the loop without
\* emitting, dispatching or counting anything, and once main has left the
\* loop no step follows: nothing more is published or broadcast, message is
\* neither read nor written, count keeps its value and no handler runs.
C12_StoppedIsTerminal ==
    /\ [][pc = "loop" /\ ~ok =>
            pc' = "done" /\ UNCHANGED <<trace, count, message, msg, queue>>]_vars
    /\ [][pc = "done" =>
            UNCHANGED <<pc, trace, count, message, msg, queue>>]_vars

\* main has left the loop after publishing and after answering a call
C12_Witness ==
    /\ pc = "done"
    /\ ~ok
    /\ NumChatter >= 2
    /\ NumResponses >= 1


\* C13: once ros::ok() is false main eventually leaves the loop, and from any
\* moment at which ros::ok() is false at most one more message is published.
C13_ShutdownResponse ==
    /\ (~ok) ~> (pc = "done")
    /\ \A n \in 0..MaxTicks :
           [](~ok /\ NumChatter = n => [](NumChatter <= n + 1))

\* the shutdown request came after the loop head of the second iteration had
\* found ros::ok() true, the iteration published its message, and main has
\* left the loop
C13_Witness ==
    /\ pc = "done"
    /\ count = 2
    /\ NumChatter = 2
    /\ \E i \in Positions("response") : NumBefore("chatter", i) = 1


\* the strings message has held up to position i of the trace: the default
\* and the requests of the calls completed before i
WrittenBefore(i) ==
    {DefaultMessage} \cup
        {trace[k].req : k \in {k \in Positions("response") : k < i}}

\* C14: message always holds the default or the whole string of a completed
\* call, the text composed by an iteration is built from message as it is at
\* that moment, and every published text is built from the default or from
\* the whole string of a call completed before it.
C14_AtomicReads ==
    /\ message \in WrittenBefore(Len(trace) + 1)
    /\ pc = "publish" => Payload(msg) = message
    /\ \A i \in Positions("chatter") :
           Payload(trace[i].data) \in WrittenBefore(i)

\* an iteration has read the string of a completed call while a request with
\* another string is waiting
C14_Witness ==
    /\ pc = "publish"
    /\ NumResponses = 1
    /\ Len(queue) = 1
    /\ queue[1].inputStr # message
    /\ Payload(msg) = trace[LastResponseBefore(Len(trace) + 1)].req


NumTf == Cardinality(Positions("tf"))

\* C15 as stated: an iteration publishes with the counter not yet incremented,
\* sends the transform after the message, and has incremented the counter
\* when it comes to block.
C15_IncrementBeforeBlock ==
    /\ pc = "publish" => count = NumChatter
    /\ pc = "spin" => NumTf = NumChatter
    /\ pc = "sleep" => count = NumChatter

\* one step of main inside the loop, in the order of lines 145-180
C15_LoopStep ==
    \/ /\ pc = "loop"
       /\ pc' = IF ok THEN "compose" ELSE "done"
       /\ UNCHANGED <<trace, count, message, now>>
    \/ /\ pc = "compose"
       /\ pc' = "publish"
       /\ Payload(msg') = message
       /\ atoi(msg') = count
       /\ NumChatter' = NumChatter
       /\ UNCHANGED <<count, message, now>>
    \/ /\ pc = "publish"
       /\ pc' = "transform"
       /\ trace' = Append(trace, trace'[Len(trace')])
       /\ trace'[Len(trace')].kind = "chatter"
       /\ trace'[Len(trace')].data = msg
       /\ UNCHANGED <<count, message, now>>
    \/ /\ pc = "transform"
       /\ pc' = "spin"
       /\ trace' = Append(trace, trace'[Len(trace')])
       /\ trace'[Len(trace')].kind = "tf"
       /\ UNCHANGED <<count, message, now>>
    \/ /\ pc = "spin"
       /\ pc' = "sleep"
       /\ NumChatter' = NumChatter
       /\ NumTf' = NumTf
       /\ UNCHANGED <<count, now>>
    \/ /\ pc = "sleep"
       /\ pc' = "incr"
       /\ now' = now + CycleTime(loop_rate)
       /\ UNCHANGED <<trace, count, message>>
    \/ /\ pc = "incr"
       /\ pc' = "loop"
       /\ count' = count + 1
       /\ UNCHANGED <<trace, message, now>>

\* C15 amended: an iteration composes its text from message, publishes it,
\* sends the transform, dispatches the waiting calls, blocks for the rest of
\* the period, increments the counter by 1 and then tests ros::ok(); the
\* counter is incremented after the block and before the test.
C15_StepOrder ==
    [][(pc \in RunningPcs /\ pc' # pc) => C15_LoopStep]_vars

\* main has blocked at the end of its second iteration and is about to
\* increment the counter
C15_Witness ==
    /\ pc = "incr"
    /\ count = 1
    /\ NumChatter = 2
    /\ NumTf = 2
    /\ now = 2 * CycleTime(loop_rate)


\* C16: the k-th transform is sent after the k-th message and before the next
\* one, so each iteration publishes one message and then sends one transform;
\* between the publish and the broadcast of an iteration there is one more
\* message than transforms, everywhere else, the loop head included, there
\* are as many transforms as messages.
C16_OneOfEachPerTick ==
    /\ \A i \in Positions("tf") :
           NumBefore("chatter", i) = NumBefore("tf", i) + 1
    /\ \A i \in Positions("chatter") :
           NumBefore("tf", i) = NumBefore("chatter", i)
    /\ pc = "transform" => NumChatter = NumTf + 1
    /\ pc # "transform" => NumChatter = NumTf

\* three iterations are complete: three messages and three transforms
C16_Witness == pc = "loop" /\ NumChatter = 3 /\ NumTf = 3


\* C17: a step in which the handler runs changes neither count nor the
\* frequency nor the rate nor ros::ok(), publishes nothing, sends no transform
\* and leaves main inside its loop; message changes only in a step in which
\* the handler runs, and no step taken while main is at its loop head, its
\* compose, publish, transform, sleep or increment step changes it.
C17_FrameConditions ==
    /\ [][NumResponses' # NumResponses =>
            /\ UNCHANGED <<count, talkerFrequency, loop_rate, ok>>
            /\ NumChatter' = NumChatter
            /\ NumTf' = NumTf
            /\ pc \in RunningPcs /\ pc' \in RunningPcs]_vars
    /\ [][NumResponses' = NumResponses => message' = message]_vars
    /\ [][(pc # "spin") => (message' = message)]_vars

\* the handler has run in the second iteration: message is new, count is not
C17_Witness ==
    /\ pc = "sleep"
    /\ count = 1
    /\ message # DefaultMessage
    /\ NumResponses = 1
    /\ NumBefore("chatter", LastResponseBefore(Len(trace) + 1)) = 2


\* C18: no step makes count smaller, so it never decreases and is never set
\* back.
C18_NeverDecreases == [][count' >= count]_vars


\* C19: the handler runs only in the step that takes main from its dispatch
\* step to its sleep, after the transform of the iteration was sent; message
\* keeps its value from the end of that step until the next iteration has
\* composed its text; and the first message is published from the default,
\* before any call is answered.
C19_DispatchOnlyInSpin ==
    /\ [][NumResponses' # NumResponses =>
            (pc = "spin" /\ pc' = "sleep" /\ NumTf = NumChatter)]_vars
    /\ [][(pc \in {"sleep", "incr", "loop", "compose"}) =>
            (message' = message)]_vars
    /\ [](\A i \in Positions("chatter") :
            NumBefore("chatter", i) = 0 =>
                /\ NumBefore("response", i) = 0
                /\ Payload(trace[i].data) = DefaultMessage)

\* a request for "hello" is waiting while the first iteration holds the text
\* it composed from the default
C19_Witness ==
    /\ pc = "publish"
    /\ count = 0
    /\ Len(queue) = 1
    /\ queue[1].inputStr = Hello
    /\ Payload(msg) = DefaultMessage

====
